---- MODULE Spec2Model ----
(***************************************************************************)
(* Model of finsite/stock-db-postgres: the batching queue listener of      *)
(* app/queue_handler.py (RabbitMQ push adapter, SQS pull adapter), the     *)
(* batch callback of app/main.py with the writer of app/db_writer.py, and  *)
(* the restart loop of app/main.py.                                        *)
(*                                                                         *)
(* The program is one thread of control; pc is its position.  The signal   *)
(* handler _graceful_shutdown runs between any two steps of that thread.   *)
(* The broker, the queue service and the database are the environment:     *)
(* what they deliver and which of their calls raise is nondeterministic.   *)
(***************************************************************************)
EXTENDS Integers, Sequences, FiniteSets, TLC

\* ---------------------------------------------------------------- bounds
\* config.get_batch_size() and config.get_flush_timeout(): configuration
\* values (positive integers), fixed for one run of the service.
batch_size == 2
flush_timeout == 2
\* Number of raw messages the environment delivers in one behaviour.
MaxMsgs == 3
\* Largest value of the clock (time.time()), in seconds since start.
MaxTime == 3
\* Number of calls into the environment (callback's database write, basic_ack,
\* basic_nack, process_data_events, receive_message, delete_message) that
\* raise in one behaviour; a failed connection attempt counts as one.
MaxFaults == 2

\* ------------------------------------------------------ program constants
\* @retry(stop=stop_after_attempt(5), ...) on both listeners.
StopAfterAttempt == 5
\* if restart_attempts >= 5: sys.exit(1)
MaxRestarts == 5
\* wait=wait_exponential(multiplier=1, min=2, max=10) on both listeners.
WaitMultiplier == 1
WaitMin == 2
WaitMax == 10

VARIABLES
    queue_type,        \* config.get_queue_type(): "rabbitmq" or "sqs"
    pc,                \* position of the service's thread of control
    shutdown_event,    \* threading.Event: set or not
    connection,        \* the listener's connection / client: "none", "open", "closed"
    message_batch,     \* push: sequence of <<message, delivery_tag>>; pull: of messages
    receipt_handles,   \* pull: sequence of receipt handles
    last_flush_time,   \* local of the listener
    now,               \* local of on_message / of the poll cycle
    clock,             \* time.time()
    idx,               \* position in the ack / nack / delete loop of a flush
    exc,               \* exception state of the flush's try statement
    attempt,           \* tenacity's attempt number of the current listener call
    restart_attempts,  \* __main__'s counter
    retry_wait,        \* seconds tenacity slept before the current attempt (0: none)
    next_tag,          \* next delivery tag / receipt handle the environment hands out
    received,          \* the raw messages delivered on the current connection, in arrival order
    dispatched,        \* the calls of the callback made by the current listener run: [payload, ok]
    acked,             \* the basic_ack calls issued on the current channel: delivery tags
    nacked,            \* the basic_nack calls issued on the current channel: [tag, requeue]
    deleted,           \* the delete_message calls issued by the current client: receipt handles
    faults,            \* number of environment calls that raised so far
    at_signal          \* what _graceful_shutdown found when it set the event

vars == <<queue_type, pc, shutdown_event, connection, message_batch,
          receipt_handles, last_flush_time, now, clock, idx, exc, attempt,
          restart_attempts, retry_wait, next_tag, received, dispatched,
          acked, nacked, deleted, faults, at_signal>>

\* Everything the listener's local frame and the histories hold.
batch_vars == <<message_batch, receipt_handles, last_flush_time, now, idx, exc>>
hist_vars == <<dispatched, acked, nacked, deleted>>
env_vars == <<next_tag, received, faults>>
main_vars == <<attempt, restart_attempts, retry_wait>>

\* ------------------------------------------------------------ raw messages
\* A body is the serialized text: what it serializes and the identity of the
\* message.  "mapping": a JSON object; "scalar": valid JSON that is no object
\* (a number, a string, a list); "malformed": not JSON.
BodyKinds == {"mapping", "scalar", "malformed"}

Body(kind, id) == <<kind, id>>

\* json.loads(body): raises on malformed text, otherwise returns the value.
json_loads(body) ==
    IF body[1] = "malformed"
    THEN [ok |-> FALSE]
    ELSE [ok |-> TRUE, value |-> [is_mapping |-> (body[1] = "mapping"), id |-> body[2]]]

\* ------------------------------------------------------------- the callback
\* record.get(...) for every record of the batch: raises AttributeError on a
\* record that is no mapping.  db_ok: whether execute_batch/commit succeed.
write_batch_to_postgres(data_batch, db_ok) ==
    IF data_batch = <<>>
    THEN TRUE
    ELSE (\A i \in 1..Len(data_batch) : data_batch[i].is_mapping) /\ db_ok

\* TRUE when the callback returns, FALSE when it raises.
process_batch(batch, db_ok) ==
    IF batch = <<>>
    THEN TRUE
    ELSE write_batch_to_postgres(batch, db_ok)

\* ------------------------------------------------------------ flush helpers
\* Mutant of PushPayload: the payload is built in reverse order.
PushPayload_Reversed(batch) == [i \in 1..Len(batch) |-> batch[Len(batch) + 1 - i][1]]

\* payload = [m[0] for m in message_batch]
PushPayload(batch) == [i \in 1..Len(batch) |-> batch[i][1]]

\* The tokens of the pending batch, in order.
PushTags(batch) == [i \in 1..Len(batch) |-> batch[i][2]]

Payload == IF queue_type = "rabbitmq" THEN PushPayload(message_batch) ELSE message_batch

Tokens == IF queue_type = "rabbitmq" THEN PushTags(message_batch) ELSE receipt_handles

\* len(message_batch) >= batch_size or (now - last_flush_time) >= flush_timeout
PushShouldFlush(batch, t, last) ==
    Len(batch) >= batch_size \/ (t - last) >= flush_timeout

\* Mutant of SqsShouldFlush: the pull adapter does not test that the batch is
\* non-empty.
SqsShouldFlush_AlsoEmpty(batch, t, last) ==
    Len(batch) >= batch_size \/ (t - last) >= flush_timeout

\* message_batch and (len(message_batch) >= batch_size or ... >= flush_timeout)
SqsShouldFlush(batch, t, last) ==
    batch # <<>> /\ (Len(batch) >= batch_size \/ (t - last) >= flush_timeout)

\* ------------------------------------------------------ retry and restart
\* Mutant of wait_exponential: the exponential is not clamped to [min, max].
wait_exponential_Unclamped(attempt_number) ==
    WaitMultiplier * 2 ^ (attempt_number - 1)

\* tenacity's wait_exponential(multiplier, min, max), exp_base 2: the seconds
\* slept after the attempt_number-th attempt has failed,
\* max(min, min(multiplier * 2 ** (attempt_number - 1), max)).
wait_exponential(attempt_number) ==
    LET result == WaitMultiplier * 2 ^ (attempt_number - 1)
        capped == IF result <= WaitMax THEN result ELSE WaitMax
    IN  IF capped >= WaitMin THEN capped ELSE WaitMin

\* An exception leaves the listener: tenacity sleeps and calls it again until
\* the 5th attempt has failed, then RetryError reaches main(), which re-raises
\* it to the restart loop of __main__.
ListenerRaises ==
    IF attempt < StopAfterAttempt
    THEN /\ attempt' = attempt + 1
         /\ restart_attempts' = restart_attempts
         /\ retry_wait' = wait_exponential(attempt)
         /\ pc' = "connect"
    ELSE /\ attempt' = 1
         /\ restart_attempts' = restart_attempts + 1
         /\ retry_wait' = 0
         /\ pc' = IF restart_attempts + 1 >= MaxRestarts THEN "exit" ELSE "connect"

\* main() returned: "main() exited unexpectedly. Restarting..." and the
\* while True loop calls main() again.
Restart ==
    /\ pc = "returned"
    /\ pc' = "connect"
    /\ attempt' = 1
    /\ retry_wait' = 0
    /\ UNCHANGED <<queue_type, shutdown_event, connection, batch_vars, clock,
                   restart_attempts, env_vars, hist_vars, at_signal>>

\* A new connection (channel, client): nothing delivered on it, no call issued.
NewConnection ==
    /\ received' = <<>>
    /\ dispatched' = <<>>
    /\ acked' = <<>>
    /\ nacked' = <<>>
    /\ deleted' = <<>>

\* --------------------------------------------------------- signal handler
\* Mutant of graceful_shutdown: the handler raises in the interrupted code, as
\* the default SIGINT handler does, which aborts a flush in progress.
graceful_shutdown_Interrupts ==
    /\ pc # "exit"
    /\ ~shutdown_event
    /\ shutdown_event' = TRUE
    /\ at_signal' = [batch_empty |-> (message_batch = <<>>), next_tag |-> next_tag]
    /\ pc' = IF pc \in {"callback", "ack", "nack", "delete", "finally"} THEN "close" ELSE pc
    /\ UNCHANGED <<queue_type, connection, batch_vars, clock, main_vars,
                   env_vars, hist_vars>>

\* _graceful_shutdown: sets the event and returns; the interrupted code goes on.
graceful_shutdown ==
    /\ pc # "exit"
    /\ ~shutdown_event
    /\ shutdown_event' = TRUE
    /\ at_signal' = [batch_empty |-> (message_batch = <<>>), next_tag |-> next_tag]
    /\ UNCHANGED <<queue_type, pc, connection, batch_vars, clock, main_vars,
                   env_vars, hist_vars>>

\* Time passes while the thread waits in process_data_events / receive_message.
Tick ==
    /\ pc \in {"pde", "recv"}
    /\ clock < MaxTime
    /\ clock' = clock + 1
    /\ UNCHANGED <<queue_type, pc, shutdown_event, connection, batch_vars,
                   main_vars, env_vars, hist_vars, at_signal>>

\* ------------------------------------------------------------ push adapter
\* Lines 43-64 and 92: connect, declare, qos, fresh batch, subscribe.
RabbitConnect ==
    /\ pc = "connect"
    /\ queue_type = "rabbitmq"
    /\ \E ok \in BOOLEAN :
         /\ ~ok => faults < MaxFaults
         /\ faults' = IF ok THEN faults ELSE faults + 1
         /\ IF ok
            THEN /\ connection' = "open"
                 /\ message_batch' = <<>>
                 /\ last_flush_time' = clock
                 /\ exc' = "none"
                 /\ pc' = "loop"
                 /\ NewConnection
                 /\ UNCHANGED main_vars
            ELSE /\ ListenerRaises
                 /\ UNCHANGED <<connection, message_batch, last_flush_time, exc,
                                received, hist_vars>>
    /\ UNCHANGED <<queue_type, shutdown_event, receipt_handles, now, clock, idx,
                   next_tag, at_signal>>

\* Mutant of RabbitLoop: on shutdown the listener flushes whatever is pending,
\* without testing that anything is.
RabbitLoop_FlushOnShutdown ==
    /\ pc = "loop"
    /\ queue_type = "rabbitmq"
    /\ pc' = IF shutdown_event
             THEN (IF connection = "open" THEN "callback" ELSE "close")
             ELSE "pde"
    /\ connection' = IF shutdown_event THEN "draining" ELSE connection
    /\ UNCHANGED <<queue_type, shutdown_event, batch_vars, clock,
                   main_vars, env_vars, hist_vars, at_signal>>

\* while not shutdown_event.is_set(): connection.process_data_events(time_limit=1)
RabbitLoop ==
    /\ pc = "loop"
    /\ queue_type = "rabbitmq"
    /\ pc' = IF shutdown_event THEN "close" ELSE "pde"
    /\ UNCHANGED <<queue_type, shutdown_event, connection, batch_vars, clock,
                   main_vars, env_vars, hist_vars, at_signal>>

\* process_data_events returns: nothing (more) to deliver within the time limit.
PdeReturn ==
    /\ pc = "pde"
    /\ pc' = "loop"
    /\ UNCHANGED <<queue_type, shutdown_event, connection, batch_vars, clock,
                   main_vars, env_vars, hist_vars, at_signal>>

\* process_data_events raises (the connection is lost).
PdeRaises ==
    /\ pc = "pde"
    /\ faults < MaxFaults
    /\ faults' = faults + 1
    /\ exc' = "raised"
    /\ pc' = "close"
    /\ UNCHANGED <<queue_type, shutdown_event, connection, message_batch,
                   receipt_handles, last_flush_time, now, clock, idx,
                   main_vars, next_tag, received, hist_vars, at_signal>>

\* Mutant of OnMessage: the undecodable message is nacked with requeue=True.
OnMessage_Requeue(kind, nack_raises) ==
    LET tag == next_tag
        raw == [body |-> Body(kind, tag), token |-> tag]
        d == json_loads(raw.body)
    IN  /\ received' = Append(received, raw)
        /\ next_tag' = next_tag + 1
        /\ IF ~d.ok
           THEN /\ nacked' = Append(nacked, [tag |-> tag, requeue |-> TRUE])
                /\ faults' = IF nack_raises THEN faults + 1 ELSE faults
                /\ exc' = IF nack_raises THEN "raised" ELSE exc
                /\ pc' = IF nack_raises THEN "close" ELSE "pde"
                /\ UNCHANGED <<message_batch, now>>
           ELSE /\ ~nack_raises
                /\ message_batch' = Append(message_batch, <<d.value, tag>>)
                /\ now' = clock
                /\ pc' = IF PushShouldFlush(message_batch', now', last_flush_time)
                         THEN "callback" ELSE "pde"
                /\ UNCHANGED <<nacked, faults, exc>>

\* Mutant of OnMessage: no return after the nack of an undecodable message, so
\* the flush condition is evaluated for it too.
OnMessage_FlushAfterNack(kind, nack_raises) ==
    LET tag == next_tag
        raw == [body |-> Body(kind, tag), token |-> tag]
        d == json_loads(raw.body)
    IN  /\ received' = Append(received, raw)
        /\ next_tag' = next_tag + 1
        /\ now' = clock
        /\ IF ~d.ok
           THEN /\ nacked' = Append(nacked, [tag |-> tag, requeue |-> FALSE])
                /\ faults' = IF nack_raises THEN faults + 1 ELSE faults
                /\ exc' = IF nack_raises THEN "raised" ELSE exc
                /\ pc' = IF nack_raises THEN "close"
                         ELSE IF PushShouldFlush(message_batch, now', last_flush_time)
                         THEN "callback" ELSE "pde"
                /\ UNCHANGED message_batch
           ELSE /\ ~nack_raises
                /\ message_batch' = Append(message_batch, <<d.value, tag>>)
                /\ pc' = IF PushShouldFlush(message_batch', now', last_flush_time)
                         THEN "callback" ELSE "pde"
                /\ UNCHANGED <<nacked, faults, exc>>

\* on_message, lines 67-77: decode, append or nack, evaluate the flush condition.
OnMessage(kind, nack_raises) ==
    LET tag == next_tag
        raw == [body |-> Body(kind, tag), token |-> tag]
        d == json_loads(raw.body)
    IN  /\ received' = Append(received, raw)
        /\ next_tag' = next_tag + 1
        /\ IF ~d.ok
           THEN /\ nacked' = Append(nacked, [tag |-> tag, requeue |-> FALSE])
                /\ faults' = IF nack_raises THEN faults + 1 ELSE faults
                /\ exc' = IF nack_raises THEN "raised" ELSE exc
                /\ pc' = IF nack_raises THEN "close" ELSE "pde"
                /\ UNCHANGED <<message_batch, now>>
           ELSE /\ ~nack_raises
                /\ message_batch' = Append(message_batch, <<d.value, tag>>)
                /\ now' = clock
                /\ pc' = IF PushShouldFlush(message_batch', now', last_flush_time)
                         THEN "callback" ELSE "pde"
                /\ UNCHANGED <<nacked, faults, exc>>

\* Mutant of prefetch_count: the limit is one below batch_size.
prefetch_count_Short == batch_size - 1

\* channel.basic_qos(prefetch_count=batch_size)
prefetch_count == batch_size

\* The deliveries of the current channel for which neither basic_ack nor
\* basic_nack has been called: what the broker counts against the prefetch
\* limit.
Unsettled ==
    Cardinality({i \in 1..Len(received) :
        /\ \A j \in 1..Len(acked) : acked[j] # received[i].token
        /\ \A j \in 1..Len(nacked) : nacked[j].tag # received[i].token})

\* The broker delivers the next message while process_data_events waits, if
\* the prefetch limit allows it; pika calls on_message.
RabbitDeliver ==
    /\ pc = "pde"
    /\ queue_type = "rabbitmq"
    /\ next_tag <= MaxMsgs
    /\ Unsettled < prefetch_count
    /\ \E kind \in BodyKinds, nack_raises \in BOOLEAN :
         /\ nack_raises => faults < MaxFaults
         /\ OnMessage(kind, nack_raises)
    /\ UNCHANGED <<queue_type, shutdown_event, connection, receipt_handles,
                   last_flush_time, clock, idx, main_vars,
                   dispatched, acked, deleted, at_signal>>

\* Mutant of Dispatch: the settlement loop runs although the callback raised.
Dispatch_SettleOnFailure(db_ok) ==
    LET ok == process_batch(Payload, db_ok)
    IN  /\ dispatched' = Append(dispatched, [payload |-> Payload, ok |-> ok])
        /\ faults' = IF db_ok THEN faults ELSE faults + 1
        /\ idx' = 1
        /\ exc' = "none"
        /\ pc' = IF Tokens = <<>> THEN "finally"
                 ELSE IF queue_type = "rabbitmq" THEN "ack" ELSE "delete"

\* Lines 79-80 (push) and 147 (pull): the one call of the callback.
Dispatch(db_ok) ==
    LET ok == process_batch(Payload, db_ok)
        empty == Tokens = <<>>
    IN  /\ dispatched' = Append(dispatched, [payload |-> Payload, ok |-> ok])
        /\ faults' = IF db_ok THEN faults ELSE faults + 1
        /\ idx' = 1
        /\ IF queue_type = "rabbitmq"
           THEN /\ exc' = IF ok THEN "none" ELSE "handling"
                /\ pc' = IF empty THEN "finally" ELSE IF ok THEN "ack" ELSE "nack"
           ELSE /\ exc' = IF ok THEN "none" ELSE "handled"
                /\ pc' = IF ok /\ ~empty THEN "delete" ELSE "finally"

Callback ==
    /\ pc = "callback"
    /\ \E db_ok \in BOOLEAN :
         /\ ~db_ok => faults < MaxFaults
         /\ Dispatch(db_ok)
    /\ UNCHANGED <<queue_type, shutdown_event, connection, message_batch,
                   receipt_handles, last_flush_time, now, clock,
                   main_vars, next_tag, received, acked, nacked, deleted, at_signal>>

\* Lines 81-82: ch.basic_ack for the idx-th pair; a raise enters the except block.
AckOne(raises) ==
    /\ acked' = Append(acked, message_batch[idx][2])
    /\ faults' = IF raises THEN faults + 1 ELSE faults
    /\ IF raises
       THEN /\ exc' = "handling"
            /\ idx' = 1
            /\ pc' = "nack"
       ELSE /\ exc' = exc
            /\ idx' = idx + 1
            /\ pc' = IF idx = Len(message_batch) THEN "finally" ELSE "ack"

AckStep ==
    /\ pc = "ack"
    /\ \E raises \in BOOLEAN :
         /\ raises => faults < MaxFaults
         /\ AckOne(raises)
    /\ UNCHANGED <<queue_type, shutdown_event, connection, message_batch,
                   receipt_handles, last_flush_time, now, clock,
                   main_vars, next_tag, received, dispatched, nacked, deleted,
                   at_signal>>

\* Mutant of NackOne: the rejected batch is nacked with requeue=True.
NackOne_Requeue(raises) ==
    /\ nacked' = Append(nacked, [tag |-> message_batch[idx][2], requeue |-> TRUE])
    /\ faults' = IF raises THEN faults + 1 ELSE faults
    /\ IF raises
       THEN /\ exc' = "raised"
            /\ idx' = idx
            /\ pc' = "finally"
       ELSE /\ idx' = idx + 1
            /\ exc' = IF idx = Len(message_batch) THEN "handled" ELSE exc
            /\ pc' = IF idx = Len(message_batch) THEN "finally" ELSE "nack"

\* Lines 84-87: ch.basic_nack(requeue=False) for the idx-th pair; a raise
\* inside the except block leaves on_message after the finally block.
NackOne(raises) ==
    /\ nacked' = Append(nacked, [tag |-> message_batch[idx][2], requeue |-> FALSE])
    /\ faults' = IF raises THEN faults + 1 ELSE faults
    /\ IF raises
       THEN /\ exc' = "raised"
            /\ idx' = idx
            /\ pc' = "finally"
       ELSE /\ idx' = idx + 1
            /\ exc' = IF idx = Len(message_batch) THEN "handled" ELSE exc
            /\ pc' = IF idx = Len(message_batch) THEN "finally" ELSE "nack"

NackStep ==
    /\ pc = "nack"
    /\ \E raises \in BOOLEAN :
         /\ raises => faults < MaxFaults
         /\ NackOne(raises)
    /\ UNCHANGED <<queue_type, shutdown_event, connection, message_batch,
                   receipt_handles, last_flush_time, now, clock,
                   main_vars, next_tag, received, dispatched, acked, deleted,
                   at_signal>>

\* Mutant of FlushFinally: the batch is cleared in the try block, not in finally.
FlushFinally_KeepOnFailure ==
    /\ message_batch' = IF exc = "none" THEN <<>> ELSE message_batch
    /\ receipt_handles' = IF exc = "none" THEN <<>> ELSE receipt_handles
    /\ last_flush_time' = now

\* Lines 88-90 (push) and 153-156 (pull): the finally block of the flush.
FlushFinally ==
    /\ message_batch' = <<>>
    /\ receipt_handles' = <<>>
    /\ last_flush_time' = now

Finally ==
    /\ pc = "finally"
    /\ FlushFinally
    /\ IF queue_type = "rabbitmq"
       THEN /\ pc' = IF exc = "raised" THEN "close" ELSE "pde"
            /\ exc' = IF exc = "raised" THEN "raised" ELSE "none"
       ELSE /\ pc' = "loop"
            /\ exc' = "none"
    /\ idx' = 1
    /\ UNCHANGED <<queue_type, shutdown_event, connection, now, clock,
                   main_vars, env_vars, hist_vars, at_signal>>

\* Lines 99-101: channel.stop_consuming(); connection.close(); then the
\* listener returns, or the exception that ended the loop goes on.
RabbitClose ==
    /\ pc = "close"
    /\ connection' = "closed"
    /\ exc' = "none"
    /\ IF exc = "raised"
       THEN ListenerRaises
       ELSE /\ pc' = "returned"
            /\ UNCHANGED main_vars
    /\ UNCHANGED <<queue_type, shutdown_event, message_batch, receipt_handles,
                   last_flush_time, now, clock, idx, env_vars,
                   hist_vars, at_signal>>

\* ------------------------------------------------------------ pull adapter
\* Lines 107-121: client, fresh batch.  A client error is logged and the
\* listener returns.
SqsConnect ==
    /\ pc = "connect"
    /\ queue_type = "sqs"
    /\ \E ok \in BOOLEAN :
         /\ ~ok => faults < MaxFaults
         /\ faults' = IF ok THEN faults ELSE faults + 1
         /\ IF ok
            THEN /\ connection' = "open"
                 /\ message_batch' = <<>>
                 /\ receipt_handles' = <<>>
                 /\ last_flush_time' = clock
                 /\ exc' = "none"
                 /\ pc' = "loop"
                 /\ NewConnection
            ELSE /\ pc' = "returned"
                 /\ connection' = "none"
                 /\ UNCHANGED <<message_batch, receipt_handles,
                                last_flush_time, exc, received, hist_vars>>
    /\ UNCHANGED <<queue_type, shutdown_event, now, clock, idx, main_vars,
                   next_tag, at_signal>>

\* while not shutdown_event.is_set():
SqsLoop ==
    /\ pc = "loop"
    /\ queue_type = "sqs"
    /\ pc' = IF shutdown_event THEN "returned" ELSE "recv"
    /\ UNCHANGED <<queue_type, shutdown_event, connection, batch_vars, clock,
                   main_vars, env_vars, hist_vars, at_signal>>

\* Mutant of DecodeAll: the receipt handle is recorded before the body is
\* decoded, so also for a message that is not appended.
RECURSIVE DecodeAll_HandleFirst(_, _, _)
DecodeAll_HandleFirst(messages, batch, handles) ==
    IF messages = <<>>
    THEN [batch |-> batch, handles |-> handles]
    ELSE LET msg == Head(messages)
             d == json_loads(msg.body)
         IN  IF d.ok
             THEN DecodeAll_HandleFirst(Tail(messages), Append(batch, d.value),
                                        Append(handles, msg.token))
             ELSE DecodeAll_HandleFirst(Tail(messages), batch, Append(handles, msg.token))

\* Lines 135-141: the decode loop over the polled messages.
RECURSIVE DecodeAll(_, _, _)
DecodeAll(messages, batch, handles) ==
    IF messages = <<>>
    THEN [batch |-> batch, handles |-> handles]
    ELSE LET msg == Head(messages)
             d == json_loads(msg.body)
         IN  IF d.ok
             THEN DecodeAll(Tail(messages), Append(batch, d.value), Append(handles, msg.token))
             ELSE DecodeAll(Tail(messages), batch, handles)

\* Lines 127-145: one poll that returns `messages`.
Poll(messages) ==
    LET r == DecodeAll(messages, message_batch, receipt_handles)
    IN  /\ received' = received \o messages
        /\ next_tag' = next_tag + Len(messages)
        /\ now' = clock
        /\ message_batch' = r.batch
        /\ receipt_handles' = r.handles
        /\ pc' = IF SqsShouldFlush(r.batch, now', last_flush_time)
                 THEN "callback" ELSE "loop"

Min(a, b) == IF a <= b THEN a ELSE b

SqsReceive ==
    /\ pc = "recv"
    /\ \E k \in 0..Min(batch_size, MaxMsgs + 1 - next_tag) :
         \E kinds \in [1..k -> BodyKinds] :
            Poll([i \in 1..k |-> [body |-> Body(kinds[i], next_tag + i - 1),
                                  token |-> next_tag + i - 1]])
    /\ UNCHANGED <<queue_type, shutdown_event, connection, last_flush_time, clock,
                   idx, exc, main_vars, faults, hist_vars, at_signal>>

\* receive_message raises: the outer except logs and sleeps.
SqsReceiveRaises ==
    /\ pc = "recv"
    /\ faults < MaxFaults
    /\ faults' = faults + 1
    /\ pc' = "sleep"
    /\ UNCHANGED <<queue_type, shutdown_event, connection, batch_vars, clock,
                   main_vars, next_tag, received, hist_vars, at_signal>>

\* time.sleep(polling_interval), then the next loop test.
SqsSleep ==
    /\ pc = "sleep"
    /\ pc' = "loop"
    /\ UNCHANGED <<queue_type, shutdown_event, connection, batch_vars, clock,
                   main_vars, env_vars, hist_vars, at_signal>>

\* Lines 148-149: delete_message for the idx-th handle; a raise is caught by
\* the inner except.
DeleteOne(raises) ==
    /\ deleted' = Append(deleted, receipt_handles[idx])
    /\ faults' = IF raises THEN faults + 1 ELSE faults
    /\ IF raises
       THEN /\ exc' = "handled"
            /\ idx' = idx
            /\ pc' = "finally"
       ELSE /\ exc' = exc
            /\ idx' = idx + 1
            /\ pc' = IF idx = Len(receipt_handles) THEN "finally" ELSE "delete"

DeleteStep ==
    /\ pc = "delete"
    /\ \E raises \in BOOLEAN :
         /\ raises => faults < MaxFaults
         /\ DeleteOne(raises)
    /\ UNCHANGED <<queue_type, shutdown_event, connection, message_batch,
                   receipt_handles, last_flush_time, now, clock,
                   main_vars, next_tag, received, dispatched, acked, nacked,
                   at_signal>>

\* ------------------------------------------------------------ specification
\* consume_messages has installed _graceful_shutdown for SIGINT and SIGTERM and
\* is about to call the listener of the configured queue type.
Init ==
    /\ queue_type \in {"rabbitmq", "sqs"}
    /\ pc = "connect"
    /\ shutdown_event = FALSE
    /\ connection = "none"
    /\ message_batch = <<>>
    /\ receipt_handles = <<>>
    /\ last_flush_time = 0
    /\ now = 0
    /\ clock = 0
    /\ idx = 1
    /\ exc = "none"
    /\ attempt = 1
    /\ restart_attempts = 0
    /\ retry_wait = 0
    /\ next_tag = 1
    /\ received = <<>>
    /\ dispatched = <<>>
    /\ acked = <<>>
    /\ nacked = <<>>
    /\ deleted = <<>>
    /\ faults = 0
    /\ at_signal = [batch_empty |-> TRUE, next_tag |-> 1]

\* The steps of the service's own thread.
Program ==
    \/ RabbitConnect
    \/ RabbitLoop
    \/ PdeReturn
    \/ PdeRaises
    \/ RabbitDeliver
    \/ Callback
    \/ AckStep
    \/ NackStep
    \/ Finally
    \/ RabbitClose
    \/ SqsConnect
    \/ SqsLoop
    \/ SqsReceive
    \/ SqsReceiveRaises
    \/ SqsSleep
    \/ DeleteStep
    \/ Restart

Next ==
    \/ Program
    \/ graceful_shutdown
    \/ Tick

Spec == Init /\ [][Next]_vars

\* The service's thread always takes its next step: every blocking call is
\* bounded (process_data_events(time_limit=1), WaitTimeSeconds=10, sleeps).
\* What the environment sends, and signals, are under no obligation.
FairSpec == Spec /\ WF_vars(Program)

\* ------------------------------------------------- the retry specification
\* pika.BlockingConnection raises (line 54) while the broker is unreachable:
\* any number of times, where the failures of RabbitConnect are counted in
\* faults.
RabbitConnectFails ==
    /\ pc = "connect"
    /\ queue_type = "rabbitmq"
    /\ ListenerRaises
    /\ UNCHANGED <<queue_type, shutdown_event, connection, batch_vars, clock,
                   env_vars, hist_vars, at_signal>>

\* receive_message returns no message: the queue is empty.
SqsReceiveNothing ==
    /\ pc = "recv"
    /\ Poll(<<>>)
    /\ UNCHANGED <<queue_type, shutdown_event, connection, last_flush_time, clock,
                   idx, exc, main_vars, faults, hist_vars, at_signal>>

\* The service against a broker that is unreachable for any length of time
\* and a queue that holds no message: the listener is called, fails or
\* returns, and is called again by tenacity and by the restart loop.
RetryNext ==
    \/ RabbitConnect
    \/ RabbitConnectFails
    \/ RabbitLoop
    \/ PdeReturn
    \/ PdeRaises
    \/ RabbitClose
    \/ SqsConnect
    \/ SqsLoop
    \/ SqsReceiveNothing
    \/ SqsReceiveRaises
    \/ SqsSleep
    \/ Restart
    \/ graceful_shutdown
    \/ Tick

RetrySpec == Init /\ [][RetryNext]_vars

\* ------------------------------------------------------ observation helpers
Range(s) == {s[i] : i \in 1..Len(s)}

Last(s) == s[Len(s)]

\* The positions of a flush after the callback has been called.
SettlePcs == {"ack", "nack", "delete", "finally"}

\* The positions of a flush.
FlushPcs == {"callback"} \cup SettlePcs

Decodable(raw) == json_loads(raw.body).ok

\* The decoded messages of the decodable raw messages of `raws`, in order.
DecodedOf(raws) ==
    LET good == SelectSeq(raws, Decodable)
    IN  [i \in 1..Len(good) |-> json_loads(good[i].body).value]

\* The tokens of the decodable raw messages of `raws`, in order.
TokensOf(raws) ==
    LET good == SelectSeq(raws, Decodable)
    IN  [i \in 1..Len(good) |-> good[i].token]

\* The payloads of the first n dispatch calls, concatenated.
RECURSIVE Dispatched(_)
Dispatched(n) ==
    IF n = 0 THEN <<>> ELSE Dispatched(n - 1) \o dispatched[n].payload

\* The last n elements of s.
Suffix(s, n) == SubSeq(s, Len(s) - n + 1, Len(s))

\* ---------------------------------------------------------------- claims

\* C1: a token is acked (push) or deleted (pull) only after a dispatch call
\* whose payload held that token's decoded message has returned successfully.
C1_SettledOnlyAfterDispatch ==
    \A t \in Range(acked) \cup Range(deleted) :
        \E r \in Range(received) :
            /\ r.token = t
            /\ Decodable(r)
            /\ \E k \in 1..Len(dispatched) :
                 /\ dispatched[k].ok
                 /\ json_loads(r.body).value \in Range(dispatched[k].payload)

C1_Witness ==
    /\ queue_type = "sqs"
    /\ Len(deleted) >= 2
    /\ \E k \in 1..Len(dispatched) : ~dispatched[k].ok

\* C2: every dispatch call carries exactly the decoded messages accumulated
\* since the previous flush, in arrival order and without tokens, each batch is
\* dispatched once, and when the dispatch and every settlement call succeed
\* each token of the batch has been acked (push) or deleted (pull) once.
C2_DispatchedOnceInOrder ==
    /\ pc \notin SettlePcs /\ connection = "open" =>
         Dispatched(Len(dispatched)) \o Payload = DecodedOf(received)
    /\ pc \in SettlePcs =>
         /\ dispatched # <<>>
         /\ Last(dispatched).payload = Payload
         /\ Dispatched(Len(dispatched)) = DecodedOf(received)
    /\ pc = "finally" /\ exc = "none" /\ Last(dispatched).ok =>
         LET n == Len(Payload)
             settled == IF queue_type = "rabbitmq" THEN acked ELSE deleted
         IN  /\ Len(settled) >= n
             /\ Suffix(settled, n) = Suffix(TokensOf(received), n)
             /\ \A t \in Range(Suffix(settled, n)) :
                  /\ Cardinality({i \in 1..Len(settled) : settled[i] = t}) = 1
                  /\ \A i \in 1..Len(nacked) : nacked[i].tag # t

C2_Witness ==
    /\ queue_type = "rabbitmq"
    /\ pc = "finally"
    /\ exc = "none"
    /\ Len(dispatched) = 1
    /\ Len(message_batch) = batch_size
    /\ Len(received) > batch_size

\* C3: when a flush ends the pending batch and the receipt handles are empty
\* and last_flush_time is the time read for that flush, whatever the outcome;
\* outside a flush no message of the pending batch has been dispatched.
C3_FlushLeavesNothing ==
    /\ [][(pc \in FlushPcs /\ pc' \notin FlushPcs) =>
            (message_batch' = <<>> /\ receipt_handles' = <<>> /\ last_flush_time' = now)]_vars
    /\ [](pc \notin SettlePcs =>
            \A m \in Range(Payload) : m \notin Range(Dispatched(Len(dispatched))))

C3_Witness ==
    /\ pc \in {"pde", "loop"}
    /\ message_batch = <<>>
    /\ last_flush_time = now
    /\ now > 0
    /\ Len(dispatched) = 2
    /\ ~dispatched[1].ok
    /\ acked # <<>>
    /\ nacked # <<>>

\* C4: the pending batch never holds more than batch_size messages, and no
\* payload passed to dispatch is longer than batch_size.
C4_BatchWithinBatchSize ==
    /\ Len(message_batch) <= batch_size
    /\ \A k \in 1..Len(dispatched) : Len(dispatched[k].payload) <= batch_size

\* The listener is running and waiting for deliveries, with a pending batch
\* below batch_size whose flush timeout has elapsed.
TimeoutElapsed ==
    /\ connection = "open"
    /\ pc \in {"loop", "pde", "recv", "sleep"}
    /\ ~shutdown_event
    /\ message_batch # <<>>
    /\ Len(message_batch) < batch_size
    /\ clock - last_flush_time >= flush_timeout

\* C5: once the flush timeout of a non-empty batch below batch_size has
\* elapsed, the batch is dispatched without any further arrival (unless the
\* listener is shut down or loses its connection first).
C5_TimeoutFlushWithoutArrival ==
    \A n \in 1..(MaxMsgs + 1) :
        (TimeoutElapsed /\ next_tag = n) ~>
            \/ pc = "callback"
            \/ next_tag # n
            \/ shutdown_event
            \/ pc \in {"close", "connect", "returned", "exit"}

\* The same for the pull adapter alone.
C5_PullTimeoutFlush ==
    \A n \in 1..(MaxMsgs + 1) :
        (TimeoutElapsed /\ next_tag = n /\ queue_type = "sqs") ~>
            \/ pc = "callback"
            \/ next_tag # n
            \/ shutdown_event
            \/ pc \in {"close", "connect", "returned", "exit"}

\* The raw messages a step has received.
Arrived == SubSeq(received', Len(received) + 1, Len(received'))

\* C6: an undecodable raw message is in no payload and not in the pending
\* batch, its token is never acked or deleted; the push adapter nacks it once,
\* with requeue=False, in the step that receives it, the pull adapter issues
\* no call for it; a step that receives messages appends exactly the decodable
\* ones, in order, whatever undecodable ones came before or among them.
C6_DecodeFailureIsLocal ==
    /\ [](\A r \in Range(received) : ~Decodable(r) =>
            /\ \A k \in 1..Len(dispatched) :
                 \A m \in Range(dispatched[k].payload) : m.id # r.body[2]
            /\ \A m \in Range(Payload) : m.id # r.body[2]
            /\ r.token \notin (Range(acked) \cup Range(deleted) \cup Range(Tokens))
            /\ queue_type = "rabbitmq" =>
                 /\ Cardinality({i \in 1..Len(nacked) : nacked[i].tag = r.token}) = 1
                 /\ [tag |-> r.token, requeue |-> FALSE] \in Range(nacked)
            /\ queue_type = "sqs" => nacked = <<>>)
    /\ [][Len(received') > Len(received) =>
            (/\ Payload' = Payload \o DecodedOf(Arrived)
             /\ Tokens' = Tokens \o TokensOf(Arrived))]_vars

C6_Witness ==
    /\ queue_type = "rabbitmq"
    /\ Len(received) = 3
    /\ Decodable(received[1])
    /\ ~Decodable(received[2])
    /\ Decodable(received[3])
    /\ pc = "callback"
    /\ PushTags(message_batch) = <<received[1].token, received[3].token>>

\* The tags of the pending batch that have been nacked with requeue=False.
NackedNoRequeue(t) ==
    /\ [tag |-> t, requeue |-> FALSE] \in Range(nacked)
    /\ [tag |-> t, requeue |-> TRUE] \notin Range(nacked)

\* The push adapter is at the end of a flush whose dispatch failed.
RejectedFlushEnds ==
    /\ queue_type = "rabbitmq"
    /\ pc = "finally"
    /\ ~Last(dispatched).ok

FlushUndisturbed ==
    /\ received' = received
    /\ next_tag' = next_tag
    /\ (pc' \in FlushPcs \/ pc = "finally")
    /\ (pc # "finally" =>
          (message_batch' = message_batch /\ receipt_handles' = receipt_handles))
    /\ (shutdown_event' # shutdown_event =>
          (pc' = pc /\ UNCHANGED <<batch_vars, hist_vars, connection>>))

\* C8: while a flush is in progress nothing is received or decoded and the
\* batch is not touched; the flush is left only through its finally block; a
\* flush starts only from the wait for deliveries or from a poll; a signal
\* that sets the event during a flush changes nothing else.
C8_FlushRunsToCompletion ==
    /\ [][(pc \in FlushPcs) => FlushUndisturbed]_vars
    /\ [][(pc' = "callback" /\ pc # "callback") => pc \in {"pde", "recv"}]_vars

C8_Witness ==
    /\ queue_type = "rabbitmq"
    /\ shutdown_event
    /\ ~at_signal.batch_empty
    /\ at_signal.next_tag = next_tag
    /\ pc = "finally"
    /\ exc = "none"
    /\ Len(acked) = batch_size

\* A step issues no dispatch, ack, nack or delete.
NoCallIssued ==
    /\ Len(dispatched') <= Len(dispatched)
    /\ Len(acked') <= Len(acked)
    /\ Len(nacked') <= Len(nacked)
    /\ Len(deleted') <= Len(deleted)

\* C9 as stated: once the event is set while the batch is empty, no dispatch,
\* ack, nack or delete is issued any more.
C9_NothingAfterShutdownOnEmptyBatch ==
    [][(shutdown_event /\ at_signal.batch_empty) => NoCallIssued]_vars

\* C9 amended: once the event is set while the batch is empty, no dispatch,
\* ack, nack or delete is issued as long as no message is delivered after the
\* signal, and the loop test that follows ends the listener.
C9_NothingAfterShutdownUnlessDelivery ==
    /\ [][(shutdown_event /\ at_signal.batch_empty /\ next_tag' = at_signal.next_tag)
            => NoCallIssued]_vars
    /\ [][(shutdown_event /\ pc = "loop" /\ pc' # pc)
            => (pc' \in {"close", "returned"} /\ NoCallIssued)]_vars

C9_Witness ==
    /\ queue_type = "rabbitmq"
    /\ shutdown_event
    /\ at_signal.batch_empty
    /\ at_signal.next_tag = next_tag
    /\ pc = "returned"
    /\ connection = "closed"
    /\ dispatched # <<>>

\* The listener that was running has left its loop because the event is set
\* and has returned to main().
StoppedByShutdown ==
    /\ shutdown_event
    /\ pc = "returned"
    /\ connection # "none"

\* C10: once the listener has stopped after a shutdown, the service does
\* nothing more: it does not run the listener again and opens no connection.
C10_ShutdownIsTerminal ==
    [][StoppedByShutdown => (pc' = "returned" /\ connection' = connection)]_vars

\* The first half of C10: once the event is set, the listener stops.
C10_ShutdownStopsListener ==
    shutdown_event ~> (pc \in {"returned", "exit"})

\* A step in which an exception leaves the listener.
ListenerFailed ==
    /\ shutdown_event' = shutdown_event
    /\ \/ (pc = "connect" /\ queue_type = "rabbitmq" /\ pc' # "loop")
       \/ (pc = "close" /\ exc = "raised")

\* The failed attempt is followed by a wait and a new attempt, or, when it
\* was the last one allowed, by the failure reaching the restart loop.
RetriedOrSurfaced ==
    IF attempt < StopAfterAttempt
    THEN /\ attempt' = attempt + 1
         /\ restart_attempts' = restart_attempts
         /\ pc' = "connect"
         /\ retry_wait' \in WaitMin..WaitMax
         /\ retry_wait' >= retry_wait
         /\ (retry_wait' \in {WaitMin, WaitMax} \/ retry_wait' = 2 * retry_wait)
    ELSE /\ attempt' = 1
         /\ restart_attempts' = restart_attempts + 1
         /\ pc' \in {"connect", "exit"}
         /\ retry_wait' = 0

\* C11: within one call of consume_messages the listener is attempted at most
\* 5 times; the wait before each new attempt is between 2 and 10 seconds, never
\* shorter than the one before and doubling where it is not clamped; the 5th
\* failure is not retried but reaches the caller.
C11_ReconnectionBounded ==
    /\ [](attempt \in 1..StopAfterAttempt)
    /\ [][ListenerFailed => RetriedOrSurfaced]_vars

C11_Witness ==
    /\ queue_type = "rabbitmq"
    /\ restart_attempts = 1
    /\ attempt = StopAfterAttempt
    /\ retry_wait = 8
    /\ pc = "connect"

\* A step of the pull listener in which receive_message or delete_message
\* raises.
PullTransportError ==
    /\ queue_type = "sqs"
    /\ pc \in {"recv", "delete"}
    /\ faults' > faults

\* C12: in the pull adapter an error raised by a receive or by a delete is
\* followed by the sleep of the polling interval and then by the next loop
\* test; the loop is left only when the event is set.
C12_TransportErrorSleeps ==
    /\ [][PullTransportError => pc' = "sleep"]_vars
    /\ [][(pc = "sleep" /\ pc' # pc) => pc' = "loop"]_vars
    /\ [][(queue_type = "sqs" /\ pc \notin {"connect", "returned"} /\ pc' = "returned")
            => (pc = "loop" /\ shutdown_event)]_vars

\* The part of C12 about receive_message, and the end of the loop.
C12_ReceiveErrorSleeps ==
    /\ [][(PullTransportError /\ pc = "recv") => pc' = "sleep"]_vars
    /\ [][(pc = "sleep" /\ pc' # pc) => pc' = "loop"]_vars
    /\ [][(queue_type = "sqs" /\ pc \notin {"connect", "returned"} /\ pc' = "returned")
            => (pc = "loop" /\ shutdown_event)]_vars

\* A step in which receive_message returns (with or without messages).
PollReturned ==
    /\ queue_type = "sqs"
    /\ pc = "recv"
    /\ pc' \notin {"recv", "sleep"}

\* What the poll cycle does once receive_message has returned at time `clock`.
FlushDecided ==
    /\ now' = clock
    /\ last_flush_time' = last_flush_time
    /\ pc' \in {"callback", "loop"}
    /\ (pc' = "callback") <=>
          /\ message_batch' # <<>>
          /\ \/ Len(message_batch') >= batch_size
             \/ clock - last_flush_time >= flush_timeout

\* C13: in the pull adapter every poll that returns without error, also one
\* that returns no message, evaluates the flush condition: the flush starts in
\* that cycle if and only if the batch is non-empty and holds at least
\* batch_size messages or the time of the poll's return is at least
\* flush_timeout after last_flush_time.
C13_FlushDecidedOnEveryPoll ==
    [][PollReturned => FlushDecided]_vars

\* A poll has returned nothing after every message was flushed, later than
\* flush_timeout after that flush, and no flush followed.
C13_Witness ==
    /\ queue_type = "sqs"
    /\ pc = "loop"
    /\ next_tag = MaxMsgs + 1
    /\ Len(dispatched) = 1
    /\ Len(dispatched[1].payload) = Len(received)
    /\ Len(received) = MaxMsgs
    /\ message_batch = <<>>
    /\ now - last_flush_time >= flush_timeout

\* C14: when the listener has stopped because the event was set, no decoded
\* message is left in the pending batch: every decoded message received on
\* the connection has been dispatched.
C14_DrainedOnShutdown ==
    StoppedByShutdown =>
        /\ message_batch = <<>>
        /\ Dispatched(Len(dispatched)) = DecodedOf(received)

\* C15: in the push adapter the deliveries received and not yet acked or
\* nacked never exceed batch_size; while the listener waits for deliveries the
\* batch is below batch_size and the prefetch limit still admits a delivery,
\* so the batch can reach batch_size.
C15_PrefetchNeverBlocksBatch ==
    queue_type = "rabbitmq" =>
        /\ Unsettled <= batch_size
        /\ pc = "pde" => (Len(message_batch) < batch_size /\ Unsettled < prefetch_count)

C15_Witness ==
    /\ queue_type = "rabbitmq"
    /\ pc = "pde"
    /\ Len(acked) = batch_size
    /\ nacked # <<>>
    /\ Len(message_batch) = batch_size - 1
    /\ Unsettled = batch_size - 1

\* C16: every element of every payload passed to the callback is a mapping:
\* a body that parses to something else is kept out of the batch like an
\* undecodable one, so it cannot make the callback fail.
C16_PayloadsHoldMappings ==
    \A k \in 1..Len(dispatched) :
        \A i \in 1..Len(dispatched[k].payload) : dispatched[k].payload[i].is_mapping

\* The number of basic_ack calls, and of basic_nack calls, issued for tag t.
AckCalls(t) == Cardinality({i \in 1..Len(acked) : acked[i] = t})

NackCalls(t) == Cardinality({i \in 1..Len(nacked) : nacked[i].tag = t})

\* The tag belongs to the batch being flushed.
InBatch(t) == t \in Range(PushTags(message_batch))

\* The tags of the batch being flushed whose basic_ack call has returned: the
\* ack loop stops at the call that raises, so of the calls issued for this
\* batch every one but the last has returned.
AckReturned ==
    LET mine == SelectSeq(acked, InBatch)
    IN  {mine[i] : i \in 1..(Len(mine) - 1)}

\* C17: in the push adapter no delivery tag is settled twice: basic_ack is
\* called at most once for a tag, basic_nack at most once, and no tag whose
\* basic_ack has returned is nacked, also when a later basic_ack of the same
\* loop raises.
C17_SettledAtMostOnce ==
    queue_type = "rabbitmq" =>
        /\ \A r \in Range(received) : AckCalls(r.token) <= 1 /\ NackCalls(r.token) <= 1
        /\ pc \in {"nack", "finally"} => \A t \in AckReturned : NackCalls(t) = 0

\* C18: the callback is never called with an empty payload: whenever the
\* listener is about to call it the pending batch holds a message, and no call
\* made had an empty payload.
C18_DispatchNeverEmpty ==
    /\ pc = "callback" => (message_batch # <<>> /\ Payload # <<>>)
    /\ \A k \in 1..Len(dispatched) : dispatched[k].payload # <<>>

\* An undecodable delivery arrived on an empty batch after the flush timeout
\* had elapsed, and no flush followed.
C18_Witness ==
    /\ queue_type = "rabbitmq"
    /\ pc = "pde"
    /\ message_batch = <<>>
    /\ dispatched = <<>>
    /\ Len(received) = 1
    /\ Len(nacked) = 1
    /\ clock - last_flush_time >= flush_timeout

\* The i-th receipt handle is the handle of the raw message whose body decoded
\* to the i-th message of the batch.
HandlesAligned ==
    /\ Len(receipt_handles) = Len(message_batch)
    /\ \A i \in 1..Len(receipt_handles) :
         \E r \in Range(received) :
            /\ r.token = receipt_handles[i]
            /\ Decodable(r)
            /\ json_loads(r.body).value = message_batch[i]

\* The pull adapter is at the end of a flush whose dispatch succeeded.
CommittedFlushEnds ==
    /\ queue_type = "sqs"
    /\ pc = "finally"
    /\ Last(dispatched).ok

====
